---- MODULE Spec2Model ----
(***************************************************************************)
(* A model of the SCIM proxy: the resource matcher, the rule engine, the   *)
(* response synthesizer, the body transformer, the forwarder               *)
(* (src/unnamed/part_000, the proxy and config modules) and the request    *)
(* handler passed to Bun.serve (src/index.ts).                             *)
(*                                                                         *)
(* Strings the code takes apart (paths, methods) are sequences of          *)
(* one-character strings.  JSON texts are sequences of lexical tokens, so  *)
(* that JSON.parse and JSON.stringify are real conversions.                *)
(***************************************************************************)
EXTENDS Integers, Sequences, FiniteSets, TLC

(***************************************************************************)
(* Bounds of the model.                                                    *)
(***************************************************************************)
\* longest rule list of a configuration
MaxRules == 2
\* most applications of applyTransforms in a row by the direct caller
MaxApply == 2
\* longest emails array of the texts given to applyTransforms directly
MaxEmails == 2

(***************************************************************************)
(* Optional values: undefined / null against a present value.              *)
(***************************************************************************)
Some(x) == [some |-> TRUE, v |-> x]
NoStr == [some |-> FALSE, v |-> <<>>]

\* JavaScript truthiness of an optional string: undefined and "" are falsy
TruthyStr(o) == o.some /\ o.v # <<>>

(***************************************************************************)
(* String primitives.                                                      *)
(***************************************************************************)
LowerLetters ==
  <<"a","b","c","d","e","f","g","h","i","j","k","l","m",
    "n","o","p","q","r","s","t","u","v","w","x","y","z">>
UpperLetters ==
  <<"A","B","C","D","E","F","G","H","I","J","K","L","M",
    "N","O","P","Q","R","S","T","U","V","W","X","Y","Z">>

\* the upper-case letter of every lower-case letter
UpperOf ==
  [c \in {LowerLetters[i] : i \in 1..26} |->
     UpperLetters[CHOOSE i \in 1..26 : LowerLetters[i] = c]]

toUpperCaseChar(c) == IF c \in DOMAIN UpperOf THEN UpperOf[c] ELSE c

\* String.prototype.toUpperCase
toUpperCase(s) == [i \in 1..Len(s) |-> toUpperCaseChar(s[i])]

\* Array.prototype.includes
includes(arr, x) == \E i \in 1..Len(arr) : arr[i] = x

\* String.prototype.startsWith
startsWith(s, p) == Len(p) <= Len(s) /\ SubSeq(s, 1, Len(p)) = p

\* String.prototype.slice(n), 0 <= n
slice(s, n) == IF n >= Len(s) THEN <<>> ELSE SubSeq(s, n + 1, Len(s))

\* length of the longest run of non-slash characters of s starting at index i
RECURSIVE RunLen(_, _)
RunLen(s, i) ==
  IF i > Len(s) \/ s[i] = "/" THEN 0 ELSE 1 + RunLen(s, i + 1)

\* path.split("/").filter(Boolean).length: the number of non-empty segments
RECURSIVE SegmentCount(_, _)
SegmentCount(s, i) ==
  IF i > Len(s) THEN 0
  ELSE IF s[i] = "/" THEN SegmentCount(s, i + 1)
  ELSE 1 + SegmentCount(s, i + RunLen(s, i))

(***************************************************************************)
(* Resource matcher.                                                       *)
(***************************************************************************)
\* path.match(/^(\/[^/]+)/): the first capture group, or null
matchResourceRegex(path) ==
  IF Len(path) >= 2 /\ path[1] = "/" /\ RunLen(path, 2) >= 1
  THEN Some(SubSeq(path, 1, 1 + RunLen(path, 2)))
  ELSE NoStr

\* extractResource without the check that the path starts with the base path
extractResource_noPrefixCheck(pathname, basePath) ==
  IF TruthyStr(basePath)
  THEN matchResourceRegex(slice(pathname, Len(basePath.v)))
  ELSE matchResourceRegex(pathname)

extractResource(pathname, basePath) ==
  IF TruthyStr(basePath)
  THEN IF ~startsWith(pathname, basePath.v)
       THEN NoStr
       ELSE matchResourceRegex(slice(pathname, Len(basePath.v)))
  ELSE matchResourceRegex(pathname)

isRequestToCollection(pathname, basePath) ==
  LET path == IF TruthyStr(basePath)
              THEN slice(pathname, Len(basePath.v))
              ELSE pathname
  IN  SegmentCount(path, 1) <= 1

(***************************************************************************)
(* Configuration.                                                          *)
(***************************************************************************)
STAR == <<"*">>
mGET == <<"G","E","T">>
mPOST == <<"P","O","S","T">>
mPUT == <<"P","U","T">>
mPATCH == <<"P","A","T","C","H">>
mDELETE == <<"D","E","L","E","T","E">>
mHEAD == <<"H","E","A","D">>
mdelete == <<"d","e","l","e","t","e">>

\* an absent list of methods / an absent action in the TOML file
NoMethods == [some |-> FALSE, v |-> <<>>]
NoAction == [some |-> FALSE, v |-> ""]

NullRule == [resource |-> <<>>, methods |-> <<>>, action |-> "null"]
NoRule == [some |-> FALSE, v |-> NullRule]

\* the rules.map callback of loadConfig: defaults and method normalisation
loadRule(r) ==
  LET methods == IF r.methods.some THEN r.methods.v ELSE <<STAR>>
      action == IF r.action.some THEN r.action.v ELSE "reject"
  IN  [resource |-> r.resource,
       methods |-> [i \in 1..Len(methods) |-> toUpperCase(methods[i])],
       action |-> action]

loadConfig(raw) ==
  [upstream |-> raw.upstream,
   server |-> raw.server,
   rules |-> [i \in 1..Len(raw.rules) |-> loadRule(raw.rules[i])],
   transforms |-> raw.transforms]

(***************************************************************************)
(* Rule engine.                                                            *)
(***************************************************************************)
\* the for loop of matchRule, from rule i on
RECURSIVE matchRuleFrom(_, _, _, _)
matchRuleFrom(rules, i, resource, upperMethod) ==
  IF i > Len(rules) THEN NoRule
  ELSE IF rules[i].resource # resource
       THEN matchRuleFrom(rules, i + 1, resource, upperMethod)
  ELSE IF includes(rules[i].methods, STAR)
          \/ includes(rules[i].methods, upperMethod)
       THEN Some(rules[i])
  ELSE matchRuleFrom(rules, i + 1, resource, upperMethod)

\* matchRule with the scan keeping the last matching rule
RECURSIVE matchRuleLastFrom(_, _, _, _, _)
matchRuleLastFrom(rules, i, resource, upperMethod, found) ==
  IF i > Len(rules) THEN found
  ELSE IF rules[i].resource = resource
          /\ (includes(rules[i].methods, STAR)
              \/ includes(rules[i].methods, upperMethod))
       THEN matchRuleLastFrom(rules, i + 1, resource, upperMethod,
                              Some(rules[i]))
  ELSE matchRuleLastFrom(rules, i + 1, resource, upperMethod, found)

matchRule_lastWins(pathname, method, rules, basePath) ==
  LET resource == extractResource(pathname, basePath)
  IN  IF ~TruthyStr(resource) THEN NoRule
      ELSE matchRuleLastFrom(rules, 1, resource.v, toUpperCase(method),
                             NoRule)

matchRule(pathname, method, rules, basePath) ==
  LET resource == extractResource(pathname, basePath)
  IN  IF ~TruthyStr(resource) THEN NoRule
      ELSE matchRuleFrom(rules, 1, resource.v, toUpperCase(method))

(***************************************************************************)
(* JSON values.  Every value is a record of one shape: k is the kind, a    *)
(* the content of an atom (the literal of a boolean, the canonical digits  *)
(* of a number, the characters of a string), keys the property names of an *)
(* object in property order, items the elements of an array or the         *)
(* property values of an object.  No property name of the texts below is   *)
(* an array index, so property order is insertion order.                   *)
(***************************************************************************)
JAtom(k, a) == [k |-> k, a |-> a, keys |-> <<>>, items |-> <<>>]
JUndefined == JAtom("undefined", "")
JNull == JAtom("null", "")
JTrue == JAtom("bool", "true")
JFalse == JAtom("bool", "false")
JNum(n) == JAtom("num", n)
JStr(s) == JAtom("str", s)
JArr(items) == [k |-> "arr", a |-> "", keys |-> <<>>, items |-> items]
JObj(keys, items) == [k |-> "obj", a |-> "", keys |-> keys, items |-> items]

\* JavaScript truthiness (ToBoolean)
Truthy(v) ==
  CASE v.k \in {"undefined", "null"} -> FALSE
    [] v.k = "bool" -> v.a = "true"
    [] v.k = "num" -> v.a # "0"
    [] v.k = "str" -> v.a # ""
    [] OTHER -> TRUE

\* typeof v === "object" && v !== null
IsObjectLike(v) == v.k \in {"obj", "arr"}

HasKey(v, key) == v.k = "obj" /\ \E i \in 1..Len(v.keys) : v.keys[i] = key

\* v[key] for a name that is neither an array index nor a built-in property
\* (v is not null: reading a property of null raises a TypeError)
GetProp(v, key) ==
  IF HasKey(v, key)
  THEN v.items[CHOOSE i \in 1..Len(v.keys) : v.keys[i] = key]
  ELSE JUndefined

\* obj[key] = val on an object: an existing property keeps its place
SetProp(obj, key, val) ==
  IF HasKey(obj, key)
  THEN JObj(obj.keys,
            [i \in 1..Len(obj.keys) |->
               IF obj.keys[i] = key THEN val ELSE obj.items[i]])
  ELSE JObj(Append(obj.keys, key), Append(obj.items, val))

(***************************************************************************)
(* JSON texts: sequences of lexical tokens.                                *)
(***************************************************************************)
Tok(t, v) == [t |-> t, v |-> v]
LB == Tok("p", "{")
RB == Tok("p", "}")
LK == Tok("p", "[")
RK == Tok("p", "]")
COLON == Tok("p", ":")
COMMA == Tok("p", ",")
WS == Tok("ws", " ")
TStr(s) == Tok("str", s)
TNum(n) == Tok("num", n)
TLit(l) == Tok("lit", l)
\* a word that is no JSON token
TBad(w) == Tok("bad", w)

\* the number a numeric literal denotes, as JSON.stringify prints it
NumCanon(n) == IF n = "1.0" THEN "1" ELSE n

StripWs(toks) == SelectSeq(toks, LAMBDA t : t.t # "ws")

ParseFail == [ok |-> FALSE, v |-> JNull, n |-> 0]
ParseOk(v, n) == [ok |-> TRUE, v |-> v, n |-> n]

RECURSIVE ParseValue(_, _)
RECURSIVE ParseElements(_, _, _)
RECURSIVE ParseMembers(_, _, _)

\* the JSON value starting at token i
ParseValue(toks, i) ==
  IF i > Len(toks) THEN ParseFail
  ELSE LET t == toks[i] IN
    CASE t.t = "lit" ->
           ParseOk(IF t.v = "null" THEN JNull
                   ELSE IF t.v = "true" THEN JTrue ELSE JFalse, i + 1)
      [] t.t = "num" -> ParseOk(JNum(NumCanon(t.v)), i + 1)
      [] t.t = "str" -> ParseOk(JStr(t.v), i + 1)
      [] t = LK ->
           IF i + 1 <= Len(toks) /\ toks[i + 1] = RK
           THEN ParseOk(JArr(<<>>), i + 2)
           ELSE ParseElements(toks, i + 1, <<>>)
      [] t = LB ->
           IF i + 1 <= Len(toks) /\ toks[i + 1] = RB
           THEN ParseOk(JObj(<<>>, <<>>), i + 2)
           ELSE ParseMembers(toks, i + 1, JObj(<<>>, <<>>))
      [] OTHER -> ParseFail

\* the elements of an array from token i on, acc the elements read so far
ParseElements(toks, i, acc) ==
  LET r == ParseValue(toks, i) IN
  IF ~r.ok \/ r.n > Len(toks) THEN ParseFail
  ELSE IF toks[r.n] = COMMA
       THEN ParseElements(toks, r.n + 1, Append(acc, r.v))
  ELSE IF toks[r.n] = RK THEN ParseOk(JArr(Append(acc, r.v)), r.n + 1)
  ELSE ParseFail

\* the members of an object from token i on; a repeated name overwrites
ParseMembers(toks, i, acc) ==
  IF i + 1 > Len(toks) \/ toks[i].t # "str" \/ toks[i + 1] # COLON
  THEN ParseFail
  ELSE LET r == ParseValue(toks, i + 2) IN
    IF ~r.ok \/ r.n > Len(toks) THEN ParseFail
    ELSE IF toks[r.n] = COMMA
         THEN ParseMembers(toks, r.n + 1, SetProp(acc, toks[i].v, r.v))
    ELSE IF toks[r.n] = RB
         THEN ParseOk(SetProp(acc, toks[i].v, r.v), r.n + 1)
    ELSE ParseFail

\* JSON.parse: ok is FALSE where it raises a SyntaxError
JSONparse(text) ==
  LET toks == StripWs(text)
      r == ParseValue(toks, 1)
  IN  IF r.ok /\ r.n = Len(toks) + 1 THEN r ELSE ParseFail

RECURSIVE JSONstringify(_)
RECURSIVE StringifyItems(_, _)
RECURSIVE StringifyMembers(_, _)

\* JSON.stringify of a value that came from JSON: no white space
JSONstringify(v) ==
  CASE v.k = "null" -> <<TLit("null")>>
    [] v.k = "bool" -> <<TLit(v.a)>>
    [] v.k = "num" -> <<TNum(v.a)>>
    [] v.k = "str" -> <<TStr(v.a)>>
    [] v.k = "arr" -> <<LK>> \o StringifyItems(v.items, 1) \o <<RK>>
    [] v.k = "obj" -> <<LB>> \o StringifyMembers(v, 1) \o <<RB>>

StringifyItems(items, i) ==
  IF i > Len(items) THEN <<>>
  ELSE (IF i > 1 THEN <<COMMA>> ELSE <<>>)
       \o JSONstringify(items[i]) \o StringifyItems(items, i + 1)

StringifyMembers(v, i) ==
  IF i > Len(v.keys) THEN <<>>
  ELSE (IF i > 1 THEN <<COMMA>> ELSE <<>>)
       \o <<TStr(v.keys[i]), COLON>> \o JSONstringify(v.items[i])
       \o StringifyMembers(v, i + 1)

(***************************************************************************)
(* Responses.                                                              *)
(***************************************************************************)
SCIM_JSON == "application/scim+json"
ERROR_SCHEMA == "urn:ietf:params:scim:api:messages:2.0:Error"
LIST_SCHEMA == "urn:ietf:params:scim:api:messages:2.0:ListResponse"
USER_SCHEMA == "urn:ietf:params:scim:schemas:core:2.0:User"

\* a character sequence as one string
RECURSIVE Str(_)
Str(chars) == IF chars = <<>> THEN "" ELSE Head(chars) \o Str(Tail(chars))

NoBody == [some |-> FALSE, v |-> <<>>]

\* new Response(body, { status, headers }); body is an optional text
Response(body, status, statusText, headers) ==
  [status |-> status, statusText |-> statusText,
   headers |-> headers, body |-> body]

NoResponse == Response(NoBody, 0, "", {})

\* scimError without the headers of the response
scimError_noContentType(status, detail) ==
  Response(Some(JSONstringify(
             JObj(<<"schemas", "status", "detail">>,
                  <<JArr(<<JStr(ERROR_SCHEMA)>>),
                    JStr(ToString(status)), JStr(detail)>>))),
           status, "", {})

scimError(status, detail) ==
  Response(Some(JSONstringify(
             JObj(<<"schemas", "status", "detail">>,
                  <<JArr(<<JStr(ERROR_SCHEMA)>>),
                    JStr(ToString(status)), JStr(detail)>>))),
           status, "", {<<"content-type", SCIM_JSON>>})

\* the ListResponse of the GET-collection branches
emptyList ==
  JObj(<<"schemas", "totalResults", "Resources">>,
       <<JArr(<<JStr(LIST_SCHEMA)>>), JNum("0"), JArr(<<>>)>>)

\* String(i) for the indices of a spread array
IndexKeys(n) == [i \in 1..n |-> ToString(i - 1)]

RECURSIVE SpreadFrom(_, _, _)
SpreadFrom(target, src, i) ==
  IF i > Len(src.keys) THEN target
  ELSE SpreadFrom(SetProp(target, src.keys[i], src.items[i]), src, i + 1)

\* { ...target, ...(typeof body === "object" && body !== null ? body : {}) }
\* the indices of a spread array are integer keys, which come first
Spread(target, body) ==
  CASE body.k = "obj" -> SpreadFrom(target, body, 1)
    [] body.k = "arr" ->
         JObj(IndexKeys(Len(body.items)) \o target.keys,
              body.items \o target.items)
    [] OTHER -> target

\* uuid is the result of crypto.randomUUID(), created and lastModified are
\* the results of the calls of new Date().toISOString()
buildSilentResponse(method, body, pathname, basePath, uuid, created, lastModified) ==
  LET upper == toUpperCase(method)
      isCollection == isRequestToCollection(pathname, basePath)
      stub == Spread(JObj(<<"schemas", "id">>,
                          <<JArr(<<JStr(USER_SCHEMA)>>), JStr(uuid)>>), body)
      scim == {<<"content-type", SCIM_JSON>>}
  IN
  IF upper = mDELETE THEN Response(NoBody, 204, "", {})
  ELSE IF upper = mPOST
  THEN Response(Some(JSONstringify(SetProp(stub, "meta",
           JObj(<<"resourceType", "created", "lastModified", "location">>,
                <<JStr("User"), JStr(created), JStr(lastModified),
                  JStr("")>>)))),
         201, "", scim)
  ELSE IF upper = mPUT \/ upper = mPATCH
  THEN Response(Some(JSONstringify(SetProp(stub, "meta",
           JObj(<<"resourceType", "lastModified">>,
                <<JStr("User"), JStr(lastModified)>>)))),
         200, "", scim)
  ELSE IF isCollection
  THEN Response(Some(JSONstringify(emptyList)), 200, "", scim)
  ELSE Response(Some(JSONstringify(
           JObj(<<"schemas", "id">>,
                <<JArr(<<JStr(USER_SCHEMA)>>), JStr(uuid)>>))),
         200, "", scim)

\* buildEmptyResponse answering every request as buildSilentResponse does
buildEmptyResponse_asSilent(method, pathname, body, basePath, uuid, created, lastModified) ==
  buildSilentResponse(method, body, pathname, basePath,
                      uuid, created, lastModified)

buildEmptyResponse(method, pathname, body, basePath, uuid, created, lastModified) ==
  LET upper == toUpperCase(method)
      isCollection == isRequestToCollection(pathname, basePath)
  IN
  IF upper = mDELETE THEN Response(NoBody, 204, "", {})
  ELSE IF upper = mPOST \/ upper = mPUT \/ upper = mPATCH
  THEN buildSilentResponse(method, body, pathname, basePath,
                           uuid, created, lastModified)
  ELSE IF isCollection
  THEN Response(Some(JSONstringify(emptyList)), 200, "",
                {<<"content-type", SCIM_JSON>>})
  ELSE scimError(404, "Resource not found")

(***************************************************************************)
(* Body transformer.  The result is the returned text, or the TypeError    *)
(* the call raises.                                                        *)
(***************************************************************************)
Return(text) == [throws |-> FALSE, text |-> text]
Throw == [throws |-> TRUE, text |-> <<>>]

NoType == [some |-> FALSE, v |-> ""]

\* first["type"] = emailType on the first element of parsed.emails.  A
\* property set on an array is not an element, so the array is unchanged
\* as far as JSON.stringify shows.
injectType(parsed, emailType) ==
  LET emails == GetProp(parsed, "emails")
      first == emails.items[1]
      first2 == IF first.k = "obj"
                THEN SetProp(first, "type", JStr(emailType)) ELSE first
  IN  SetProp(parsed, "emails",
              JArr([i \in 1..Len(emails.items) |->
                      IF i = 1 THEN first2 ELSE emails.items[i]]))

\* applyTransforms as its comment words it: the type goes into the first
\* entry that lacks one, wherever it is in the array
firstLacking(items) ==
  IF \E i \in 1..Len(items) :
       items[i].k = "obj" /\ ~Truthy(GetProp(items[i], "type"))
  THEN CHOOSE i \in 1..Len(items) :
         /\ items[i].k = "obj" /\ ~Truthy(GetProp(items[i], "type"))
         /\ \A j \in 1..(i - 1) :
              ~(items[j].k = "obj" /\ ~Truthy(GetProp(items[j], "type")))
  ELSE 0

applyTransforms_firstLacking(bodyText, config) ==
  LET emailType == config.transforms.inject_email_type IN
  IF ~(emailType.some /\ emailType.v # "") THEN Return(bodyText)
  ELSE LET r == JSONparse(bodyText) IN
    IF ~r.ok THEN Return(bodyText)
    ELSE IF r.v.k = "null" THEN Throw
    ELSE LET emails == GetProp(r.v, "emails") IN
      IF emails.k # "arr" \/ firstLacking(emails.items) = 0
      THEN Return(bodyText)
      ELSE Return(JSONstringify(SetProp(r.v, "emails",
             JArr([i \in 1..Len(emails.items) |->
                     IF i = firstLacking(emails.items)
                     THEN SetProp(emails.items[i], "type", JStr(emailType.v))
                     ELSE emails.items[i]]))))

applyTransforms(bodyText, config) ==
  LET emailType == config.transforms.inject_email_type IN
  IF ~(emailType.some /\ emailType.v # "") THEN Return(bodyText)
  ELSE LET r == JSONparse(bodyText) IN
    IF ~r.ok THEN Return(bodyText)
    \* parsed["emails"] of null: TypeError, outside the try block
    ELSE IF r.v.k = "null" THEN Throw
    ELSE LET emails == GetProp(r.v, "emails") IN
      IF emails.k # "arr" \/ Len(emails.items) = 0 THEN Return(bodyText)
      ELSE LET first == emails.items[1] IN
        IF Truthy(first) /\ ~Truthy(GetProp(first, "type"))
        \* an ES module is strict code: setting a property of a primitive
        \* raises a TypeError
        THEN IF IsObjectLike(first)
             THEN Return(JSONstringify(injectType(r.v, emailType.v)))
             ELSE Throw
        ELSE Return(bodyText)

(***************************************************************************)
(* Forwarder.                                                              *)
(***************************************************************************)
\* url.replace(/\/$/, "")
stripTrailingSlash(url) ==
  IF Len(url) >= 1 /\ url[Len(url)] = "/"
  THEN SubSeq(url, 1, Len(url) - 1) ELSE url

\* Headers.delete
headersDelete(headers, name) == {h \in headers : h[1] # name}

\* Headers.set
headersSet(headers, name, value) ==
  headersDelete(headers, name) \cup {<<name, value>>}

NoUpstreamRequest ==
  [url |-> "", method |-> <<>>, headers |-> {},
   body |-> [kind |-> "null", v |-> <<>>]]

\* the request forwardRequest hands to fetch (lines 311-332); bodyText is the
\* optional captured text, req.body the stream of the inbound request
upstreamRequest(req, config, bodyText) ==
  LET base == config.server.base_path
      path == IF TruthyStr(base) /\ startsWith(req.pathname, base.v)
              THEN slice(req.pathname, Len(base.v)) ELSE req.pathname
      token == config.upstream.bearer_token
      h1 == headersDelete(headersDelete(req.headers, "host"), "connection")
  IN  [url |-> Str(stripTrailingSlash(config.upstream.url)) \o Str(path)
               \o req.search,
       method |-> req.method,
       headers |-> IF token.some /\ token.v # ""
                   THEN headersSet(h1, "authorization", "Bearer " \o token.v)
                   ELSE h1,
       body |-> IF bodyText.some THEN [kind |-> "text", v |-> bodyText.v]
                ELSE IF req.hasBody THEN [kind |-> "stream", v |-> req.body]
                ELSE [kind |-> "null", v |-> <<>>]]

\* the try branch of forwardRequest: the upstream response is passed through
forwardResolved(upstreamRes) ==
  Response(upstreamRes.body, upstreamRes.status, upstreamRes.statusText,
           upstreamRes.headers)

\* the catch branch of forwardRequest
forwardRejected(err) ==
  LET message == IF err.isError THEN err.message ELSE "upstream unreachable"
  IN  scimError(502, "Upstream error: " \o message)

(***************************************************************************)
(* Inputs.                                                                 *)
(***************************************************************************)
pU == <<"/","U">>
pG == <<"/","G">>
pS == <<"/","s">>

\* the [[rules]] tables a configuration file is made of
RawRuleSet ==
  { [resource |-> pU, methods |-> Some(<<mdelete, mPUT>>), action |-> NoAction],
    [resource |-> pU, methods |-> NoMethods, action |-> Some("silent")],
    [resource |-> pG, methods |-> Some(<<STAR>>), action |-> Some("empty")] }

\* the sequences of at most n different elements of S
RECURSIVE SeqsUpTo(_, _)
SeqsUpTo(S, n) ==
  IF n = 0 THEN {<<>>}
  ELSE LET shorter == SeqsUpTo(S, n - 1)
       IN  shorter \cup UNION { {Append(q, x) : x \in {y \in S : ~includes(q, y)}} :
                                 q \in shorter }

urlUp == <<"h","t","t","p",":","/","/","u","p">>

\* [upstream], [server] and [transforms] of a configuration file
RawSettings ==
  { [upstream |-> [url |-> urlUp, bearer_token |-> NoType],
     server |-> [port |-> 8080, base_path |-> NoStr],
     transforms |-> [inject_email_type |-> NoType]],
    [upstream |-> [url |-> urlUp, bearer_token |-> NoType],
     server |-> [port |-> 8080, base_path |-> NoStr],
     transforms |-> [inject_email_type |-> Some("work")]],
    [upstream |-> [url |-> Append(urlUp, "/"), bearer_token |-> Some("tok")],
     server |-> [port |-> 8080, base_path |-> Some(pS)],
     transforms |-> [inject_email_type |-> NoType]],
    [upstream |-> [url |-> Append(urlUp, "/"), bearer_token |-> Some("tok")],
     server |-> [port |-> 8080, base_path |-> Some(pS)],
     transforms |-> [inject_email_type |-> Some("work")]] }

RawConfigs ==
  { [upstream |-> st.upstream, server |-> st.server,
     rules |-> rs, transforms |-> st.transforms] :
      st \in RawSettings, rs \in SeqsUpTo(RawRuleSet, MaxRules) }

Methods == {mGET, mPOST, mPUT, mPATCH, mDELETE, mdelete, mHEAD}

Urls ==
  { [pathname |-> p, search |-> ""] :
      p \in { pU, pU \o <<"/","1">>, pG, pG \o <<"/","1">>,
              <<"/","U","G">>, <<"/","u">>, <<"/">>,
              pS \o pU, pS \o pG \o <<"/","1">>,
              <<"/","s","U">> } }
  \cup { [pathname |-> pU, search |-> "?count=1"] }

InboundHeaders ==
  { <<"host", "proxy">>, <<"connection", "keep-alive">>,
    <<"authorization", "Bearer idp">>, <<"content-type", SCIM_JSON>> }

\* JSON values of request bodies
vEmailA == JObj(<<"value">>, <<JStr("a@b.com")>>)
vEmailB == JObj(<<"value">>, <<JStr("c@d.com")>>)
vEmailHome == JObj(<<"type", "value">>, <<JStr("home"), JStr("a@b.com")>>)
vEmailBlank == JObj(<<"type", "value">>, <<JStr(""), JStr("a@b.com")>>)
vEmails(items) == JObj(<<"userName", "emails">>, <<JStr("test"), JArr(items)>>)

\* the same text with a space after every colon and comma
RECURSIVE Spaced(_)
Spaced(text) ==
  IF text = <<>> THEN <<>>
  ELSE IF Head(text) \in {COLON, COMMA}
       THEN <<Head(text), WS>> \o Spaced(Tail(text))
  ELSE <<Head(text)>> \o Spaced(Tail(text))

\* texts that are not JSON
MalformedTexts ==
  { <<TBad("not"), WS, TBad("json")>>,
    <<LB, TStr("emails"), COLON, LK, RB>>,
    <<LB, TStr("emails"), COLON, LK, LB, RB, COMMA, RK, RB>> }

\* the bodies of the requests the handler is given
RequestTexts ==
  { <<>>,
    <<TLit("null")>>,
    JSONstringify(JArr(<<JStr("x")>>)),
    JSONstringify(JObj(<<"id", "meta">>, <<JStr("mine"), JStr("m")>>)),
    JSONstringify(vEmails(<<>>)),
    JSONstringify(vEmails(<<vEmailA>>)),
    Spaced(JSONstringify(vEmails(<<vEmailA, vEmailB>>))),
    Spaced(JSONstringify(vEmails(<<vEmailHome>>))),
    JSONstringify(vEmails(<<JStr("a@b.com")>>)),
    <<TBad("not"), WS, TBad("json")>> }

Requests ==
  { [method |-> m, pathname |-> u.pathname, search |-> u.search,
     headers |-> InboundHeaders, hasBody |-> FALSE, body |-> <<>>] :
      m \in Methods, u \in Urls }
  \cup
  { [method |-> m, pathname |-> u.pathname, search |-> u.search,
     headers |-> InboundHeaders, hasBody |-> TRUE, body |-> t] :
      m \in Methods, u \in Urls, t \in RequestTexts }

\* what crypto.randomUUID() and new Date().toISOString() can return
UUIDs == {"uuid-1", "uuid-2"}
Instants == <<"2024-01-01T00:00:00.000Z", "2024-01-01T00:00:00.001Z">>

\* what the upstream can answer
UpstreamResponses ==
  { Response(Some(<<LB, WS, RB>>), 200, "OK",
             {<<"content-type", "application/json">>}),
    Response(NoBody, 404, "Not Found", {}) }

\* what fetch can reject with: an Error with a message, or another value
FetchErrors ==
  { [isError |-> TRUE, message |-> "ECONNREFUSED"],
    [isError |-> FALSE, message |-> ""] }

(***************************************************************************)
(* The request handler (the fetch callback of Bun.serve) as a state        *)
(* machine.  It suspends while the inbound body is read and while the      *)
(* upstream answers; what runs between two suspension points is one step.  *)
(***************************************************************************)
VARIABLES
  config,      \* the configuration loadConfig returned, never changed
  pc,          \* "idle", "received", "fetching", "done"
  req,         \* the request being handled
  bodyText,    \* the handler's bodyText: null or the text read
  bodyReads,   \* number of times the inbound body was read
  rule,        \* the result of matchRule
  calls,       \* the functions of the proxy module called, in call order
  upstream,    \* the request passed to the upstream fetch
  fetchCalls,  \* number of upstream fetch calls for this request
  answer,      \* what the upstream fetch settled with
  resp,        \* the response the handler returned
  thrown,      \* an exception escaped the handler
  tIn,         \* direct caller: the text given to applyTransforms
  tOut         \* direct caller: the results of the successive applications

vars == <<config, pc, req, bodyText, bodyReads, rule, calls, upstream,
          fetchCalls, answer, resp, thrown, tIn, tOut>>

\* the upstream fetch has not settled
NoAnswer ==
  [kind |-> "none", res |-> Response(NoBody, 0, "", {}),
   err |-> [isError |-> FALSE, message |-> ""]]

NoRequest ==
  [method |-> <<>>, pathname |-> <<>>, search |-> "", headers |-> {},
   hasBody |-> FALSE, body |-> <<>>]

Idle ==
  /\ pc = "idle"
  /\ req = NoRequest
  /\ bodyText = NoBody
  /\ bodyReads = 0
  /\ rule = NoRule
  /\ calls = <<>>
  /\ upstream = NoUpstreamRequest
  /\ fetchCalls = 0
  /\ answer = NoAnswer
  /\ resp = NoResponse
  /\ thrown = FALSE

Init ==
  /\ config \in {loadConfig(raw) : raw \in RawConfigs}
  /\ Idle
  /\ tIn = <<>>
  /\ tOut = <<>>

\* lines 23-32: a request arrives; its body, if there is one, is read once
Receive ==
  /\ pc = "idle"
  /\ \E r \in Requests :
       /\ req' = r
       /\ bodyText' = IF r.hasBody THEN Some(r.body) ELSE NoBody
       /\ bodyReads' = IF r.hasBody THEN 1 ELSE 0
  /\ pc' = "received"
  /\ UNCHANGED <<config, rule, calls, upstream, fetchCalls, answer, resp,
                 thrown, tIn, tOut>>

\* lines 34-39
matched == matchRule(req.pathname, req.method, config.rules,
                     config.server.base_path)

\* lines 42-49: the body handed to the synthesizer
ruleBody ==
  IF TruthyStr(bodyText)
  THEN LET r == JSONparse(bodyText.v) IN IF r.ok THEN r.v ELSE JNull
  ELSE JNull

Returned(response, called) ==
  /\ rule' = matched
  /\ resp' = response
  /\ calls' = called
  /\ pc' = "done"
  /\ UNCHANGED <<config, req, bodyText, bodyReads, upstream, fetchCalls,
                 answer, thrown, tIn, tOut>>

\* the detail naming the request path in place of the rule's resource
rejectDetail_pathname ==
  "Operation " \o Str(req.method) \o " " \o Str(req.pathname)
  \o " is not permitted"

\* line 56: the detail of the 403
rejectDetail ==
  "Operation " \o Str(req.method) \o " " \o Str(matched.v.resource)
  \o " is not permitted"

\* lines 52-56
HandleReject ==
  /\ pc = "received"
  /\ matched.some /\ matched.v.action = "reject"
  /\ Returned(scimError(403, rejectDetail), <<"matchRule", "scimError">>)

\* lines 58-67
HandleSilent ==
  /\ pc = "received"
  /\ matched.some /\ matched.v.action = "silent"
  /\ \E uuid \in UUIDs, i \in 1..Len(Instants), j \in 1..Len(Instants) :
       /\ i <= j
       /\ Returned(buildSilentResponse(req.method, ruleBody, req.pathname,
                                       config.server.base_path,
                                       uuid, Instants[i], Instants[j]),
                   <<"matchRule", "buildSilentResponse">>)

\* lines 69-78
HandleEmpty ==
  /\ pc = "received"
  /\ matched.some /\ matched.v.action = "empty"
  /\ \E uuid \in UUIDs, i \in 1..Len(Instants), j \in 1..Len(Instants) :
       /\ i <= j
       /\ Returned(buildEmptyResponse(req.method, req.pathname, ruleBody,
                                      config.server.base_path,
                                      uuid, Instants[i], Instants[j]),
                   <<"matchRule", "buildEmptyResponse">>)

\* the switch without its return statements
fallsThrough_always == TRUE

\* lines 41-80: every case of the switch returns, so the code after it runs
\* only when no rule matched
fallsThrough ==
  ~(matched.some /\ matched.v.action \in {"reject", "silent", "empty"})

\* lines 82-86 and forwardRequest up to its await: no rule returned, the
\* captured body is transformed and the upstream fetch is started; an
\* exception of applyTransforms leaves the handler
HandleForward ==
  /\ pc = "received"
  /\ fallsThrough
  /\ rule' = matched
  /\ LET t == IF TruthyStr(bodyText)
              THEN applyTransforms(bodyText.v, config)
              ELSE Return(bodyText.v)
         called == IF TruthyStr(bodyText)
                   THEN <<"matchRule", "applyTransforms">>
                   ELSE <<"matchRule">>
     IN IF t.throws
        THEN /\ thrown' = TRUE
             /\ calls' = called
             /\ pc' = "done"
             /\ UNCHANGED <<bodyText, upstream, fetchCalls>>
        ELSE /\ bodyText' = IF TruthyStr(bodyText) THEN Some(t.text)
                            ELSE bodyText
             /\ upstream' = upstreamRequest(req, config, bodyText')
             /\ fetchCalls' = fetchCalls + 1
             /\ calls' = called \o <<"forwardRequest", "fetch">>
             /\ pc' = "fetching"
             /\ thrown' = FALSE
  /\ UNCHANGED <<config, req, bodyReads, answer, resp, tIn, tOut>>

\* lines 334-338 of the proxy module: the upstream answered
FetchResolved ==
  /\ pc = "fetching"
  /\ \E upstreamRes \in UpstreamResponses :
       /\ answer' = [NoAnswer EXCEPT !.kind = "resolved", !.res = upstreamRes]
       /\ resp' = forwardResolved(upstreamRes)
  /\ pc' = "done"
  /\ UNCHANGED <<config, req, bodyText, bodyReads, rule, calls, upstream,
                 fetchCalls, thrown, tIn, tOut>>

\* the catch branch calling fetch a second time before it gives up
FetchRejected_retry ==
  /\ pc = "fetching"
  /\ \E err \in FetchErrors :
       IF fetchCalls < 2
       THEN /\ fetchCalls' = fetchCalls + 1
            /\ calls' = Append(calls, "fetch")
            /\ UNCHANGED <<pc, answer, resp>>
       ELSE /\ answer' = [NoAnswer EXCEPT !.kind = "rejected", !.err = err]
            /\ resp' = forwardRejected(err)
            /\ calls' = Append(calls, "scimError")
            /\ pc' = "done"
            /\ UNCHANGED fetchCalls
  /\ UNCHANGED <<config, req, bodyText, bodyReads, rule, upstream,
                 thrown, tIn, tOut>>

\* lines 339-343 of the proxy module: the fetch failed
FetchRejected ==
  /\ pc = "fetching"
  /\ \E err \in FetchErrors :
       /\ answer' = [NoAnswer EXCEPT !.kind = "rejected", !.err = err]
       /\ resp' = forwardRejected(err)
       /\ calls' = Append(calls, "scimError")
  /\ pc' = "done"
  /\ UNCHANGED <<config, req, bodyText, bodyReads, rule, upstream,
                 fetchCalls, thrown, tIn, tOut>>

\* the request is over; the handler keeps nothing of it
Respond ==
  /\ pc = "done"
  /\ pc' = "idle"
  /\ req' = NoRequest
  /\ bodyText' = NoBody
  /\ bodyReads' = 0
  /\ rule' = NoRule
  /\ calls' = <<>>
  /\ upstream' = NoUpstreamRequest
  /\ fetchCalls' = 0
  /\ answer' = NoAnswer
  /\ resp' = NoResponse
  /\ thrown' = FALSE
  /\ UNCHANGED <<config, tIn, tOut>>

Next ==
  \/ Receive
  \/ HandleReject
  \/ HandleSilent
  \/ HandleEmpty
  \/ HandleForward
  \/ FetchResolved
  \/ FetchRejected
  \/ Respond

Spec == Init /\ [][Next]_vars

(***************************************************************************)
(* applyTransforms called directly, its result fed to it again, as a unit  *)
(* test of the proxy module does.  A call that raises ends the caller.     *)
(***************************************************************************)
\* what the first element of an emails array can be
FirstElements ==
  { JNull, JStr("a@b.com"), JStr(""), JNum("0"), JNum("5"), JTrue, JFalse,
    JArr(<<>>), JObj(<<>>, <<>>), vEmailA, vEmailHome, vEmailBlank,
    JObj(<<"value", "type">>, <<JStr("a@b.com"), JNull>>),
    JObj(<<"type">>, <<JStr("work")>>) }

\* first followed by n - 1 entries without a type
EmailsArray(first, n) == [i \in 1..n |-> IF i = 1 THEN first ELSE vEmailB]

TransformValues ==
  { JNull, JTrue, JNum("0"), JStr("text"), JArr(<<>>), JObj(<<>>, <<>>),
    JArr(<<vEmailA>>),
    JObj(<<"userName">>, <<JStr("test")>>),
    JObj(<<"emails">>, <<JNull>>),
    JObj(<<"emails">>, <<JStr("a@b.com")>>),
    JObj(<<"emails">>, <<vEmailA>>),
    vEmails(<<>>) }
  \cup { vEmails(EmailsArray(f, n)) : f \in FirstElements, n \in 1..MaxEmails }

TransformTexts ==
  { JSONstringify(v) : v \in TransformValues }
  \cup { Spaced(JSONstringify(v)) : v \in TransformValues }
  \cup MalformedTexts
  \cup { <<>>,
         \* a number that is not printed the way it was written
         <<LB, TStr("n"), COLON, TNum("1.0"), COMMA, TStr("emails"), COLON,
           LK, LB, RB, RK, RB>>,
         \* a repeated property name
         <<LB, TStr("emails"), COLON, LK, RK, COMMA, TStr("emails"), COLON,
           LK, LB, TStr("type"), COLON, TStr(""), COMMA,
           TStr("type"), COLON, TStr("home"), RB, RK, RB>> }

InitTransforms ==
  /\ config \in {loadConfig(raw) : raw \in RawConfigs}
  /\ Idle
  /\ tIn \in TransformTexts
  /\ tOut = <<>>

applyTransformsCall ==
  /\ Len(tOut) < MaxApply
  /\ tOut # <<>> => ~tOut[Len(tOut)].throws
  /\ tOut' = Append(tOut, applyTransforms(IF tOut = <<>> THEN tIn
                                          ELSE tOut[Len(tOut)].text, config))
  /\ UNCHANGED <<config, pc, req, bodyText, bodyReads, rule, calls, upstream,
                 fetchCalls, answer, resp, thrown, tIn>>

NextTransforms == applyTransformsCall

SpecTransforms == InitTransforms /\ [][NextTransforms]_vars

(***************************************************************************)
(* Properties of the request handler.                                      *)
(***************************************************************************)
\* the handler has run past rule matching
Dispatched == pc \in {"fetching", "done"}

\* the JSON value of the body of the response
respJson == JSONparse(resp.body.v).v

\* the response was built by the proxy itself
Synthesized == pc = "done" /\ ~thrown /\ (rule.some \/ answer.kind = "rejected")

\* C1: whenever matchRule returns a rule, the handler returns a synthesized
\* response without calling applyTransforms or forwardRequest and without an
\* upstream fetch; matchRule is the first call the handler makes, before any
\* transformation or forwarding.
C1_MatchShortCircuits ==
  /\ Dispatched => rule = matched /\ calls # <<>> /\ calls[1] = "matchRule"
  /\ \A i \in 2..Len(calls) : calls[i] # "matchRule"
  /\ (Dispatched /\ rule.some) =>
       /\ pc = "done" /\ ~thrown /\ resp # NoResponse
       /\ fetchCalls = 0 /\ upstream = NoUpstreamRequest
       /\ answer = NoAnswer
       /\ ~includes(calls, "applyTransforms")
       /\ ~includes(calls, "forwardRequest")
       /\ ~includes(calls, "fetch")

\* a request with a transformable body was answered by a rule
C1_Witness ==
  /\ pc = "done" /\ rule.some /\ rule.v.action = "silent"
  /\ config.transforms.inject_email_type.some
  /\ bodyText = Some(JSONstringify(vEmails(<<vEmailA>>)))
  /\ resp.status = 201

\* C2: every request ends with a response: no exception escapes the handler.
C2_AlwaysResponds == pc = "done" => (~thrown /\ resp # NoResponse)

\* C3: at most one upstream fetch per request; a failed fetch gives the SCIM
\* error 502 whose detail begins "Upstream error: " and is not retried; a
\* successful one gives the upstream's status, status text, headers and body.
C3_SingleFetchAttempt ==
  /\ fetchCalls <= 1
  /\ answer.kind # "none" => pc = "done" /\ fetchCalls = 1
  /\ answer.kind = "rejected" =>
       /\ resp.status = 502
       /\ resp.body.some /\ JSONparse(resp.body.v).ok
       /\ GetProp(respJson, "schemas") = JArr(<<JStr(ERROR_SCHEMA)>>)
       /\ GetProp(respJson, "status") = JStr("502")
       /\ \E message \in {"ECONNREFUSED", "upstream unreachable"} :
            GetProp(respJson, "detail") = JStr("Upstream error: " \o message)
  /\ answer.kind = "resolved" =>
       /\ resp.status = answer.res.status
       /\ resp.statusText = answer.res.statusText
       /\ resp.headers = answer.res.headers
       /\ resp.body = answer.res.body

\* the one fetch of a request failed
C3_Witness ==
  /\ pc = "done" /\ answer.kind = "rejected" /\ answer.err.isError
  /\ fetchCalls = 1 /\ resp.status = 502

\* the positions of the rules whose resource equals the resource of the
\* request path and whose methods hold "*" or the upper-cased method
Candidates ==
  LET resource == extractResource(req.pathname, config.server.base_path)
      upper == toUpperCase(req.method)
  IN  IF ~resource.some THEN {}
      ELSE { i \in 1..Len(config.rules) :
               /\ config.rules[i].resource = resource.v
               /\ \E j \in 1..Len(config.rules[i].methods) :
                    config.rules[i].methods[j] \in {STAR, upper} }

\* C4: matchRule returns the first rule in list order whose resource equals
\* the resource of the path and whose methods hold "*" or the upper-cased
\* method, and no rule when there is none; the letter case of the method
\* makes no difference.
C4_FirstMatchWins ==
  Dispatched =>
    /\ IF Candidates = {} THEN rule = NoRule
       ELSE rule = Some(config.rules[
                     CHOOSE i \in Candidates : \A j \in Candidates : i <= j])
    /\ \A m \in Methods :
         toUpperCase(m) = toUpperCase(req.method) =>
           matchRule(req.pathname, m, config.rules,
                     config.server.base_path) = rule

\* a lower-case method matched two different rules and got the first
C4_Witness ==
  /\ Dispatched /\ req.method = mdelete
  /\ Candidates = {1, 2} /\ config.rules[1] # config.rules[2]
  /\ rule = Some(config.rules[1])

\* every rule the configurations are made of, loaded
AllRules ==
  LET S == {loadRule(r) : r \in RawRuleSet}
  IN  CHOOSE q \in [1..Cardinality(S) -> S] : \A x \in S : includes(q, x)

\* C5: a path that does not start with the configured base path has no
\* resource, matches no rule of any rule list under any method, and the
\* handler takes the forward path, never reject, silent or empty.
C5_BasePathMismatch ==
  LET base == config.server.base_path IN
  ( /\ pc # "idle"
    /\ TruthyStr(base)
    /\ ~startsWith(req.pathname, base.v) ) =>
      /\ extractResource(req.pathname, base) = NoStr
      /\ \A m \in Methods, rules \in {config.rules, AllRules} :
           matchRule(req.pathname, m, rules, base) = NoRule
      /\ Dispatched =>
           /\ rule = NoRule
           /\ thrown \/ fetchCalls = 1
           /\ Len(calls) >= 2 =>
                calls[2] \in {"applyTransforms", "forwardRequest"}

\* a path that a rule would match were there no base path was forwarded
C5_Witness ==
  /\ pc = "fetching" /\ fetchCalls = 1
  /\ config.server.base_path = Some(pS)
  /\ req.pathname = pU
  /\ config.rules # <<>> /\ config.rules[1].resource = pU
  /\ includes(config.rules[1].methods, STAR)

NoOpCase ==
  LET emailType == config.transforms.inject_email_type
      r == JSONparse(tIn)
      emails == GetProp(r.v, "emails")
      type == GetProp(emails.items[1], "type")
  IN  \/ ~emailType.some
      \/ ~r.ok
      \/ emails.k # "arr"
      \/ emails.items = <<>>
      \/ type.k = "str" /\ type.a # ""

\* C7: applyTransforms returns its input unchanged and does not raise when
\* inject_email_type is not configured, the body is not JSON, the parsed
\* body has no array "emails" or an empty one, or the first element of
\* "emails" has a non-empty "type".
C7_NoOpCases ==
  (Len(tOut) >= 1 /\ NoOpCase) => tOut[1] = Return(tIn)

(***************************************************************************)
(* Properties of the synthesized responses.                                *)
(***************************************************************************)
\* the request path after the base path
strippedPath ==
  IF TruthyStr(config.server.base_path)
  THEN slice(req.pathname, Len(config.server.base_path.v))
  ELSE req.pathname

\* the path is the resource of the matched rule and nothing else
CollectionPath == strippedPath = rule.v.resource

\* the path is the resource of the matched rule and one identifier segment
SingletonPath ==
  LET n == Len(rule.v.resource) IN
  /\ Len(strippedPath) >= n + 2
  /\ SubSeq(strippedPath, 1, n) = rule.v.resource
  /\ strippedPath[n + 1] = "/"
  /\ \A i \in (n + 2)..Len(strippedPath) : strippedPath[i] # "/"

\* C8: under action "empty" a GET of a singleton path gives 404 with the
\* SCIM error "Resource not found" and a GET of a collection path gives 200
\* with an empty ListResponse; under "silent" the singleton GET gives 200;
\* POST, PUT, PATCH and DELETE under "empty" give the status they give
\* under "silent".
C8_EmptyResponses ==
  (pc = "done" /\ rule.some) =>
    LET upper == toUpperCase(req.method) IN
    /\ (rule.v.action = "empty" /\ upper = mGET /\ SingletonPath) =>
         /\ resp.status = 404
         /\ GetProp(respJson, "schemas") = JArr(<<JStr(ERROR_SCHEMA)>>)
         /\ GetProp(respJson, "detail") = JStr("Resource not found")
    /\ (rule.v.action = "empty" /\ upper = mGET /\ CollectionPath) =>
         /\ resp.status = 200
         /\ GetProp(respJson, "schemas") = JArr(<<JStr(LIST_SCHEMA)>>)
         /\ GetProp(respJson, "totalResults") = JNum("0")
         /\ GetProp(respJson, "Resources") = JArr(<<>>)
    /\ (rule.v.action = "silent" /\ upper = mGET /\ SingletonPath) =>
         resp.status = 200
    /\ (rule.v.action = "empty" /\ upper \in {mPOST, mPUT, mPATCH, mDELETE}) =>
         resp.status =
           buildSilentResponse(req.method, ruleBody, req.pathname,
                               config.server.base_path,
                               "uuid-1", Instants[1], Instants[1]).status

\* a GET of one member of a resource was answered by an "empty" rule
C8_Witness ==
  /\ pc = "done" /\ rule.some /\ rule.v.action = "empty"
  /\ req.method = mGET /\ SingletonPath
  /\ resp.status = 404

\* C9: a request matched by a "reject" rule is answered 403 with a SCIM
\* error whose status is "403" and whose detail is "Operation <METHOD>
\* <resource> is not permitted", <resource> being the resource of the rule
\* and not the request path.
C9_RejectResponse ==
  (pc = "done" /\ rule.some /\ rule.v.action = "reject") =>
    /\ resp.status = 403
    /\ GetProp(respJson, "schemas") = JArr(<<JStr(ERROR_SCHEMA)>>)
    /\ GetProp(respJson, "status") = JStr("403")
    /\ GetProp(respJson, "detail") =
         JStr("Operation " \o Str(req.method) \o " " \o Str(rule.v.resource)
              \o " is not permitted")
    /\ (req.method = mDELETE /\ req.pathname = pU \o <<"/", "1">>) =>
         GetProp(respJson, "detail") =
           JStr("Operation DELETE /U is not permitted")

\* DELETE of one member of a resource was rejected
C9_Witness ==
  /\ pc = "done" /\ rule.some /\ rule.v.action = "reject"
  /\ req.method = mDELETE /\ req.pathname = pU \o <<"/", "1">>
  /\ resp.status = 403

HasScimContentType == <<"content-type", SCIM_JSON>> \in resp.headers

\* C10: every synthesized response, the answers to DELETE included, carries
\* the content type application/scim+json.
C10_AllScimJson == Synthesized => HasScimContentType

\* C10 as amended: every synthesized response that has a body carries the
\* content type application/scim+json; the 204 that answers DELETE under
\* "silent" and "empty" has no body and no content type.
C10_BodiesAreScimJson ==
  Synthesized =>
    /\ resp.body.some <=> HasScimContentType
    /\ ~resp.body.some <=>
         /\ rule.some /\ rule.v.action \in {"silent", "empty"}
         /\ toUpperCase(req.method) = mDELETE
    /\ ~resp.body.some => resp.status = 204 /\ resp.headers = {}

\* a rejected request was answered with a SCIM error that has a body
C10_Witness ==
  /\ Synthesized /\ rule.some /\ rule.v.action = "reject"
  /\ resp.body.some /\ HasScimContentType

(***************************************************************************)
(* Properties of the forwarded body.                                       *)
(***************************************************************************)
\* the handler is past rule matching with a request that has a body and
\* that no rule matched
ForwardedWithBody == Dispatched /\ req.hasBody /\ ~rule.some

\* C11: a request with a body that matches no rule has its body read once,
\* and the body sent upstream is applyTransforms(captured body, config): with
\* inject_email_type "work" a first email without a type goes out with type
\* "work" and an empty emails array goes out unchanged; the stream of the
\* request is used only when no body was captured.
C11_ForwardedBody ==
  /\ ForwardedWithBody =>
       LET t == applyTransforms(req.body, config) IN
       /\ bodyReads = 1
       /\ ~t.throws /\ ~thrown
       /\ fetchCalls = 1
       /\ upstream.body = [kind |-> "text", v |-> t.text]
       /\ (/\ config.transforms.inject_email_type = Some("work")
           /\ req.body = JSONstringify(vEmails(<<vEmailA>>))) =>
            GetProp(GetProp(JSONparse(upstream.body.v).v, "emails").items[1],
                    "type") = JStr("work")
       /\ req.body = JSONstringify(vEmails(<<>>)) =>
            upstream.body.v = req.body
  /\ upstream.body.kind = "stream" => ~bodyText.some
  /\ (Dispatched /\ ~req.hasBody) => bodyReads = 0

====
